---- MODULE Spec2Model ----
(***************************************************************************)
(* A model of the small functions of the blog's code samples:              *)
(*   add            (2020-12-13-python-testing-unittest/code/v2-add.py)    *)
(*   square         (2020-12-06-python-testing-unittest, known only from   *)
(*                   its test suites)                                      *)
(*   process_person (2022-04-04-python-finally/resources/person4.py and    *)
(*                   person2.py)                                           *)
(*   ranking_to_individual_games                                           *)
(*                  (public/2022-10-03/ranking_from_ranked_order.py)       *)
(* Python's int is an unbounded integer and its float an IEEE-754 binary64 *)
(* value.  Both are modelled exactly: a natural number is a little-endian  *)
(* sequence of limbs in base 2^15, so that every intermediate product fits *)
(* the model checker's machine integers.                                   *)
(***************************************************************************)
EXTENDS Integers, Sequences, FiniteSets, TLC

VARIABLES
  pc,         \* the line the running call is at; "idle" before the first call, "done" after a call
  fn,         \* the function called
  args,       \* its arguments
  outcome,    \* what the finished call gave its caller: a returned value or a raised exception
  pending,    \* process_person: the return or the exception in flight when `finally` is entered
  stdout,     \* the lines printed so far
  globals,    \* the module-level mutable state (the modules define functions only)
  evaluated,  \* history: the running call has evaluated its arithmetic expression
  stdout0,    \* history: stdout when the running call began
  memo,       \* history: one earlier call of add or square with its outcome
  ranking,    \* ranking_to_individual_games: the list object passed (args keeps its value at the call)
  data,       \* ranking_to_individual_games: the local DataFrame
  loop        \* ranking_to_individual_games: the two list iterators and the slice of the inner one

vars == <<pc, fn, args, outcome, pending, stdout, globals, evaluated, stdout0, memo,
          ranking, data, loop>>

(***************************************************************************)
(* Natural numbers of any size: sequences of limbs, least significant      *)
(* first, without a most significant zero limb; zero is the empty sequence.*)
(***************************************************************************)
LimbBits == 15

RECURSIVE Pow2(_)
Pow2(n) == IF n = 0 THEN 1 ELSE 2 * Pow2(n - 1)

Base == Pow2(LimbBits)

\* without the most significant zero limbs
BNorm(a) ==
  LET nz == {i \in 1..Len(a) : a[i] # 0}
  IN  IF nz = {} THEN <<>>
      ELSE SubSeq(a, 1, CHOOSE i \in nz : \A j \in nz : j <= i)

Limb(a, i) == IF i >= 1 /\ i <= Len(a) THEN a[i] ELSE 0

MaxOf(x, y) == IF x >= y THEN x ELSE y
MinOf(x, y) == IF x <= y THEN x ELSE y

(***************************************************************************)
(* The carry chains run over a range lo..hi of limb positions and return   *)
(* the limbs of the range with the carry out of it.  A range is split in   *)
(* two halves, the carry out of the lower half entering the upper one,     *)
(* which keeps the depth of the evaluation logarithmic in the length.      *)
(***************************************************************************)
RECURSIVE BAddRange(_, _, _, _, _)
BAddRange(a, b, lo, hi, carry) ==
  IF lo > hi THEN [limbs |-> <<>>, carry |-> carry]
  ELSE IF lo = hi
  THEN LET s == Limb(a, lo) + Limb(b, lo) + carry
       IN  [limbs |-> <<s % Base>>, carry |-> s \div Base]
  ELSE LET mid == (lo + hi) \div 2
           l == BAddRange(a, b, lo, mid, carry)
           h == BAddRange(a, b, mid + 1, hi, l.carry)
       IN  [limbs |-> l.limbs \o h.limbs, carry |-> h.carry]

BAdd(a, b) ==
  LET r == BAddRange(a, b, 1, MaxOf(Len(a), Len(b)), 0)
  IN  IF r.carry = 0 THEN r.limbs ELSE Append(r.limbs, r.carry)

\* a - b for a >= b
RECURSIVE BSubRange(_, _, _, _, _)
BSubRange(a, b, lo, hi, borrow) ==
  IF lo > hi THEN [limbs |-> <<>>, carry |-> borrow]
  ELSE IF lo = hi
  THEN LET d == Limb(a, lo) - Limb(b, lo) - borrow
       IN  IF d < 0 THEN [limbs |-> <<d + Base>>, carry |-> 1]
           ELSE [limbs |-> <<d>>, carry |-> 0]
  ELSE LET mid == (lo + hi) \div 2
           l == BSubRange(a, b, lo, mid, borrow)
           h == BSubRange(a, b, mid + 1, hi, l.carry)
       IN  [limbs |-> l.limbs \o h.limbs, carry |-> h.carry]

BSub(a, b) == BNorm(BSubRange(a, b, 1, Len(a), 0).limbs)

\* -1, 0, 1 as a < b, a = b, a > b
BCmp(a, b) ==
  IF Len(a) # Len(b) THEN (IF Len(a) < Len(b) THEN -1 ELSE 1)
  ELSE IF a = b THEN 0
  ELSE LET top == CHOOSE i \in 1..Len(a) :
                    /\ a[i] # b[i]
                    /\ \A j \in (i + 1)..Len(a) : a[j] = b[j]
       IN  IF a[top] < b[top] THEN -1 ELSE 1

\* a * k for 0 <= k < Base
RECURSIVE BMulSmallRange(_, _, _, _, _)
BMulSmallRange(a, k, lo, hi, carry) ==
  IF lo > hi THEN [limbs |-> <<>>, carry |-> carry]
  ELSE IF lo = hi
  THEN LET p == a[lo] * k + carry
       IN  [limbs |-> <<p % Base>>, carry |-> p \div Base]
  ELSE LET mid == (lo + hi) \div 2
           l == BMulSmallRange(a, k, lo, mid, carry)
           h == BMulSmallRange(a, k, mid + 1, hi, l.carry)
       IN  [limbs |-> l.limbs \o h.limbs, carry |-> h.carry]

BMulSmall(a, k) ==
  LET r == BMulSmallRange(a, k, 1, Len(a), 0)
  IN  BNorm(IF r.carry = 0 THEN r.limbs ELSE Append(r.limbs, r.carry))

\* a * Base^n
BShiftLimbs(a, n) == IF a = <<>> THEN a ELSE [i \in 1..n |-> 0] \o a

\* a times the limbs lo..hi of b, as a multiple of Base^(lo - 1)
RECURSIVE BMulRange(_, _, _, _)
BMulRange(a, b, lo, hi) ==
  IF lo > hi THEN <<>>
  ELSE IF lo = hi THEN BShiftLimbs(BMulSmall(a, b[lo]), lo - 1)
  ELSE LET mid == (lo + hi) \div 2
       IN  BAdd(BMulRange(a, b, lo, mid), BMulRange(a, b, mid + 1, hi))

BMul(a, b) == BMulRange(a, b, 1, Len(b))

\* a * 2^n
BShl(a, n) == BShiftLimbs(BMulSmall(a, Pow2(n % LimbBits)), n \div LimbBits)

\* floor(a / 2^n)
BShr(a, n) ==
  LET q == n \div LimbBits
      r == n % LimbBits
      d == IF Len(a) > q THEN SubSeq(a, q + 1, Len(a)) ELSE <<>>
  IN  BNorm([i \in 1..Len(d) |->
               (d[i] \div Pow2(r)) + (Limb(d, i + 1) % Pow2(r)) * Pow2(LimbBits - r)])

\* a mod 2^n
BLow(a, n) ==
  LET q == n \div LimbBits
      r == n % LimbBits
  IN  BNorm([i \in 1..MinOf(Len(a), q + 1) |->
               IF i <= q THEN a[i] ELSE a[i] % Pow2(r)])

RECURSIVE SmallBitLen(_)
SmallBitLen(k) == IF k = 0 THEN 0 ELSE 1 + SmallBitLen(k \div 2)

BitLen(a) ==
  IF a = <<>> THEN 0 ELSE LimbBits * (Len(a) - 1) + SmallBitLen(a[Len(a)])

\* the natural number k (k within the machine integers) as limbs
RECURSIVE BFromNat(_)
BFromNat(k) == IF k = 0 THEN <<>> ELSE <<k % Base>> \o BFromNat(k \div Base)

\* 10^n
RECURSIVE BPow10(_)
BPow10(n) ==
  IF n = 0 THEN <<1>>
  ELSE IF n = 1 THEN <<10>>
  ELSE LET h == BPow10(n \div 2)
       IN  IF n % 2 = 0 THEN BMul(h, h) ELSE BMulSmall(BMul(h, h), 10)

\* the natural number with the decimal digits ds[lo..hi], most significant first
RECURSIVE BFromDigitsRange(_, _, _)
BFromDigitsRange(ds, lo, hi) ==
  IF lo > hi THEN <<>>
  ELSE IF lo = hi THEN BFromNat(ds[lo])
  ELSE LET mid == (lo + hi) \div 2
       IN  BAdd(BMul(BFromDigitsRange(ds, lo, mid), BPow10(hi - mid)),
                BFromDigitsRange(ds, mid + 1, hi))

BFromDigits(ds) == BFromDigitsRange(ds, 1, Len(ds))

BPow2(n) == BShl(<<1>>, n)

\* a mod p for a small modulus p: <<Base^n mod p, a[lo..hi] mod p>>, n the length
RECURSIVE BModRange(_, _, _, _)
BModRange(a, p, lo, hi) ==
  IF lo > hi THEN <<1 % p, 0>>
  ELSE IF lo = hi THEN <<Base % p, a[lo] % p>>
  ELSE LET mid == (lo + hi) \div 2
           l == BModRange(a, p, lo, mid)
           h == BModRange(a, p, mid + 1, hi)
       IN  <<(l[1] * h[1]) % p, (h[2] * l[1] + l[2]) % p>>

BMod(a, p) == BModRange(a, p, 1, Len(a))[2]

(***************************************************************************)
(* Python values.  An int is a sign and a magnitude; a bool is an int      *)
(* subclass; a float is a binary64: nan, an infinity, or a finite value    *)
(* (-1)^neg * m * 2^e in canonical form (53 significant bits for a normal  *)
(* number, exponent FloatMinExp for a subnormal, m empty for a zero).      *)
(***************************************************************************)
FloatMantBits == 53
FloatMaxExp == 1024
FloatMinExp == -1074

IntV(neg, mag) == [kind |-> "int", neg |-> (neg /\ mag # <<>>), mag |-> mag]
BoolV(b) == [kind |-> "bool", b |-> b]
FiniteV(neg, m, e) == [kind |-> "float", cls |-> "finite", neg |-> neg, m |-> m, e |-> e]
ZeroF(neg) == FiniteV(neg, <<>>, 0)
InfV(neg) == [kind |-> "float", cls |-> "inf", neg |-> neg, m |-> <<>>, e |-> 0]
NanV == [kind |-> "float", cls |-> "nan", neg |-> FALSE, m |-> <<>>, e |-> 0]
StrV(chars) == [kind |-> "str", chars |-> chars]
ListV(items) == [kind |-> "list", items |-> items]
DictV(keys, vals) == [kind |-> "dict", keys |-> keys, vals |-> vals]
NoneV == [kind |-> "NoneType"]

Returns(v) == [tag |-> "return", val |-> v]
Raises(e) == [tag |-> "raise", exc |-> e]

\* the classes a value is an instance of (its class and that class's bases)
ClassesOf(v) ==
  CASE v.kind = "bool" -> {"bool", "int", "object"}
    [] OTHER -> {v.kind, "object"}

isinstance(v, classes) == ClassesOf(v) \cap classes # {}

\* the int a bool or an int stands for in arithmetic
AsInt(v) ==
  IF v.kind = "bool" THEN IntV(FALSE, IF v.b THEN <<1>> ELSE <<>>) ELSE v

IntAdd(x, y) ==
  IF x.neg = y.neg THEN IntV(x.neg, BAdd(x.mag, y.mag))
  ELSE LET c == BCmp(x.mag, y.mag)
       IN  IF c = 0 THEN IntV(FALSE, <<>>)
           ELSE IF c > 0 THEN IntV(x.neg, BSub(x.mag, y.mag))
           ELSE IntV(y.neg, BSub(y.mag, x.mag))

IntMul(x, y) == IntV(x.neg # y.neg, BMul(x.mag, y.mag))

\* rounding toward zero
RoundToFloatTruncating(neg, mag, e) ==
  LET te == MaxOf(e + BitLen(mag) - FloatMantBits, FloatMinExp)
      shift == te - e
      q == IF shift <= 0 THEN BShl(mag, 0 - shift) ELSE BShr(mag, shift)
  IN  IF q = <<>> THEN ZeroF(neg)
      ELSE IF te + BitLen(q) > FloatMaxExp THEN [kind |-> "overflow", neg |-> neg]
      ELSE FiniteV(neg, q, te)

(***************************************************************************)
(* Rounding of the exact value (-1)^neg * mag * 2^e, mag # 0, to binary64, *)
(* to nearest with ties to even.  The result is a finite float, or the     *)
(* record [kind |-> "overflow"] when the rounded value reaches 2^1024.     *)
(***************************************************************************)
RoundToFloat(neg, mag, e) ==
  LET te == MaxOf(e + BitLen(mag) - FloatMantBits, FloatMinExp)
      shift == te - e
      q == IF shift <= 0 THEN BShl(mag, 0 - shift) ELSE BShr(mag, shift)
      c == IF shift <= 0 THEN -1 ELSE BCmp(BLow(mag, shift), BPow2(shift - 1))
      up == c > 0 \/ (c = 0 /\ Limb(q, 1) % 2 = 1)
      m == IF up THEN BAdd(q, <<1>>) ELSE q
      carried == BitLen(m) > FloatMantBits
      m2 == IF carried THEN BShr(m, 1) ELSE m
      e2 == IF carried THEN te + 1 ELSE te
  IN  IF m2 = <<>> THEN ZeroF(neg)
      ELSE IF e2 + BitLen(m2) > FloatMaxExp THEN [kind |-> "overflow", neg |-> neg]
      ELSE FiniteV(neg, m2, e2)

\* int to float: a float, or [kind |-> "overflow"]
IntToFloat(x) ==
  IF x.mag = <<>> THEN ZeroF(FALSE) ELSE RoundToFloat(x.neg, x.mag, 0)

OrInf(r) == IF r.kind = "overflow" THEN InfV(r.neg) ELSE r

FloatAdd(x, y) ==
  IF x.cls = "nan" \/ y.cls = "nan" THEN NanV
  ELSE IF x.cls = "inf"
       THEN (IF y.cls = "inf" /\ y.neg # x.neg THEN NanV ELSE x)
  ELSE IF y.cls = "inf" THEN y
  ELSE IF x.m = <<>> /\ y.m = <<>> THEN ZeroF(x.neg /\ y.neg)
  ELSE IF x.m = <<>> THEN y
  ELSE IF y.m = <<>> THEN x
  ELSE LET lo == MinOf(x.e, y.e)
           xm == BShl(x.m, x.e - lo)
           ym == BShl(y.m, y.e - lo)
           c == BCmp(xm, ym)
       IN  IF x.neg = y.neg THEN OrInf(RoundToFloat(x.neg, BAdd(xm, ym), lo))
           ELSE IF c = 0 THEN ZeroF(FALSE)
           ELSE IF c > 0 THEN OrInf(RoundToFloat(x.neg, BSub(xm, ym), lo))
           ELSE OrInf(RoundToFloat(y.neg, BSub(ym, xm), lo))

FloatMul(x, y) ==
  IF x.cls = "nan" \/ y.cls = "nan" THEN NanV
  ELSE IF x.cls = "inf" \/ y.cls = "inf"
       THEN (IF (x.cls = "finite" /\ x.m = <<>>) \/ (y.cls = "finite" /\ y.m = <<>>)
             THEN NanV ELSE InfV(x.neg # y.neg))
  ELSE IF x.m = <<>> \/ y.m = <<>> THEN ZeroF(x.neg # y.neg)
  ELSE OrInf(RoundToFloat(x.neg # y.neg, BMul(x.m, y.m), x.e + y.e))

IntKinds == {"int", "bool"}
NumKinds == {"int", "bool", "float"}

\* the outcome of the expression  a + b
PyAdd(a, b) ==
  IF a.kind \in IntKinds /\ b.kind \in IntKinds
  THEN Returns(IntAdd(AsInt(a), AsInt(b)))
  ELSE IF a.kind \in NumKinds /\ b.kind \in NumKinds
  THEN LET x == IF a.kind = "float" THEN a ELSE IntToFloat(AsInt(a))
           y == IF b.kind = "float" THEN b ELSE IntToFloat(AsInt(b))
       IN  IF x.kind = "overflow" \/ y.kind = "overflow"
           THEN Raises("OverflowError")
           ELSE Returns(FloatAdd(x, y))
  ELSE IF a.kind = "str" /\ b.kind = "str" THEN Returns(StrV(a.chars \o b.chars))
  ELSE IF a.kind = "list" /\ b.kind = "list" THEN Returns(ListV(a.items \o b.items))
  ELSE Raises("TypeError")

\* the outcome of the expression  a * b  for numbers a and b
NumMul(a, b) ==
  IF a.kind \in IntKinds /\ b.kind \in IntKinds
  THEN Returns(IntMul(AsInt(a), AsInt(b)))
  ELSE LET x == IF a.kind = "float" THEN a ELSE IntToFloat(AsInt(a))
           y == IF b.kind = "float" THEN b ELSE IntToFloat(AsInt(b))
       IN  IF x.kind = "overflow" \/ y.kind = "overflow"
           THEN Raises("OverflowError")
           ELSE Returns(FloatMul(x, y))

\* the outcome of the expression  x * x: no str, list, dict or None multiplies by itself
PySquare(x) ==
  IF x.kind \in NumKinds THEN NumMul(x, x) ELSE Raises("TypeError")

(***************************************************************************)
(* The arguments the calls are made with.                                  *)
(***************************************************************************)
IntOf(k) == IntV(k < 0, BFromNat(IF k < 0 THEN 0 - k ELSE k))

Int2p1024 == IntV(FALSE, BPow2(1024))                  \* 2**1024
\* 2**1024 - 2**970 - 1, the largest int that float() converts
IntLargestFloat == IntV(FALSE, BSub(BSub(BPow2(1024), BPow2(970)), <<1>>))

\* the binary64 values of the literals, as mantissa * 2^exponent
F0_1 == FiniteV(FALSE, BFromDigits(<<7,2,0,5,7,5,9,4,0,3,7,9,2,7,9,4>>), -56)    \* 0.1
F0_2 == FiniteV(FALSE, BFromDigits(<<7,2,0,5,7,5,9,4,0,3,7,9,2,7,9,4>>), -55)    \* 0.2
FNeg0_2 == FiniteV(TRUE, BFromDigits(<<7,2,0,5,7,5,9,4,0,3,7,9,2,7,9,4>>), -55)  \* -0.2
F0_3 == FiniteV(FALSE, BFromDigits(<<5,4,0,4,3,1,9,5,5,2,8,4,4,5,9,5>>), -54)    \* 0.3
F1_5 == FiniteV(FALSE, BShl(<<3>>, 51), -52)                                     \* 1.5
FNeg1_5 == FiniteV(TRUE, BShl(<<3>>, 51), -52)                                   \* -1.5
F2_25 == FiniteV(FALSE, BShl(<<9>>, 49), -51)                                    \* 2.25
F2p53 == FiniteV(FALSE, BPow2(52), 1)                        \* 9007199254740992.0
F2p29 == FiniteV(FALSE, BPow2(52), -23)                      \* 536870912.0
F2p28 == FiniteV(FALSE, BPow2(52), -24)                      \* 268435456.0
F2pm24 == FiniteV(FALSE, BSub(BPow2(53), <<1>>), -77)        \* 2**-24 - 2**-77
FMax == FiniteV(FALSE, BSub(BPow2(53), <<1>>), 971)          \* 1.7976931348623157e308

Ints == {IntOf(-5), IntOf(-2), IntOf(0), IntOf(1), IntOf(2), IntOf(100),
         IntLargestFloat, Int2p1024}
Floats == {F0_1, F0_2, FNeg0_2, F1_5, FNeg1_5, F2p53, F2p29, F2p28, F2pm24, FMax,
           InfV(FALSE), NanV}
Bools == {BoolV(TRUE), BoolV(FALSE)}
Strs == {StrV(<<"1">>), StrV(<<"1", "2">>)}
Lists == {ListV(<<>>), ListV(<<IntOf(1), IntOf(2), IntOf(3)>>)}
Dicts == {DictV(<<StrV(<<"h", "e", "l", "l", "o">>)>>, <<IntOf(3)>>)}
Values == Ints \cup Floats \cup Bools \cup Strs \cup Lists \cup Dicts \cup {NoneV}

NoOutcome == [tag |-> "none"]

(***************************************************************************)
(* add (v2-add.py).                                                        *)
(***************************************************************************)
\* add without its validation:  return a + b
AddInvalidNever(a, b) == FALSE

\* add with a check of the exact type:  type(a) not in (int, float)
AddInvalidExactType(a, b) ==
  a.kind \notin {"int", "float"} \/ b.kind \notin {"int", "float"}

\* line 4: the condition under which add raises
AddInvalid(a, b) ==
  ~isinstance(a, {"int", "float"}) \/ ~isinstance(b, {"int", "float"})

\* add returning  a + a
AddResultFirstTwice(a, b) == PyAdd(a, a)

\* line 9: the value add returns
AddResult(a, b) == PyAdd(a, b)

CallAdd ==
  /\ pc = "idle"
  /\ \E a \in Values, b \in Values : args' = <<a, b>>
  /\ fn' = "add"
  /\ pc' = "add_l4"
  /\ UNCHANGED <<outcome, pending, stdout, globals, evaluated, stdout0, memo, ranking, data, loop>>

\* add computing the sum before it validates
AddCheckAfterSum ==
  /\ pc = "add_l4"
  /\ evaluated' = TRUE
  /\ pc' = IF AddInvalid(args[1], args[2]) THEN "add_l5" ELSE "add_l9"
  /\ UNCHANGED <<fn, args, outcome, pending, stdout, globals, stdout0, memo, ranking, data, loop>>

AddCheck ==
  /\ pc = "add_l4"
  /\ pc' = IF AddInvalid(args[1], args[2]) THEN "add_l5" ELSE "add_l9"
  /\ UNCHANGED <<fn, args, outcome, pending, stdout, globals, evaluated, stdout0, memo, ranking, data, loop>>

\* add raising ValueError
AddRaiseValueError ==
  /\ pc = "add_l5"
  /\ outcome' = Raises("ValueError")
  /\ pc' = "done"
  /\ UNCHANGED <<fn, args, pending, stdout, globals, evaluated, stdout0, memo, ranking, data, loop>>

AddRaise ==
  /\ pc = "add_l5"
  /\ outcome' = Raises("TypeError")
  /\ pc' = "done"
  /\ UNCHANGED <<fn, args, pending, stdout, globals, evaluated, stdout0, memo, ranking, data, loop>>

\* add keeping its last result in a module-level variable and returning it again
AddReturnCached ==
  /\ pc = "add_l9"
  /\ evaluated' = TRUE
  /\ outcome' = IF globals = <<>> THEN AddResult(args[1], args[2]) ELSE globals[1]
  /\ globals' = <<outcome'>>
  /\ pc' = "done"
  /\ UNCHANGED <<fn, args, pending, stdout, stdout0, memo, ranking, data, loop>>

AddReturn ==
  /\ pc = "add_l9"
  /\ evaluated' = TRUE
  /\ outcome' = AddResult(args[1], args[2])
  /\ pc' = "done"
  /\ UNCHANGED <<fn, args, pending, stdout, globals, stdout0, memo, ranking, data, loop>>

(***************************************************************************)
(* square.  Its source is not among the files; the test suites import it   *)
(* (2020-12-06-python-testing-unittest/v2/test_square.py).  It is modelled *)
(* from its description: a number is multiplied by itself, anything else   *)
(* raises TypeError, checked with isinstance as in add.                    *)
(***************************************************************************)
SquareInvalid(x) == ~isinstance(x, {"int", "float"})

\* square returning  x + x
SquareResultDoubles(x) == PyAdd(x, x)

SquareResult(x) == PySquare(x)

CallSquare ==
  /\ pc = "idle"
  /\ \E x \in Values : args' = <<x>>
  /\ fn' = "square"
  /\ pc' = "square_check"
  /\ UNCHANGED <<outcome, pending, stdout, globals, evaluated, stdout0, memo, ranking, data, loop>>

SquareCheck ==
  /\ pc = "square_check"
  /\ pc' = IF SquareInvalid(args[1]) THEN "square_raise" ELSE "square_return"
  /\ UNCHANGED <<fn, args, outcome, pending, stdout, globals, evaluated, stdout0, memo, ranking, data, loop>>

\* square raising ValueError
SquareRaiseValueError ==
  /\ pc = "square_raise"
  /\ outcome' = Raises("ValueError")
  /\ pc' = "done"
  /\ UNCHANGED <<fn, args, pending, stdout, globals, evaluated, stdout0, memo, ranking, data, loop>>

SquareRaise ==
  /\ pc = "square_raise"
  /\ outcome' = Raises("TypeError")
  /\ pc' = "done"
  /\ UNCHANGED <<fn, args, pending, stdout, globals, evaluated, stdout0, memo, ranking, data, loop>>

SquareReturn ==
  /\ pc = "square_return"
  /\ evaluated' = TRUE
  /\ outcome' = SquareResult(args[1])
  /\ pc' = "done"
  /\ UNCHANGED <<fn, args, pending, stdout, globals, stdout0, memo, ranking, data, loop>>

(***************************************************************************)
(* process_person with `finally` (person4.py).  A person is an object with *)
(* attributes and a get_id method; the Person of person4.py has the one    *)
(* attribute name and a get_id that returns "abc123".  Objects of other    *)
(* classes (a subclass whose get_id fails, an object with first_name and   *)
(* last_name, None) are passed as well, since the function takes whatever  *)
(* it is given.                                                            *)
(***************************************************************************)
MaxStdout == 2

Abc123 == StrV(<<"a", "b", "c", "1", "2", "3">>)

PersonV(attrs, get_id) == [kind |-> "Person", attrs |-> attrs, get_id |-> get_id]

\* person4.py lines 1-7: Person(name)
Person4 == PersonV({"name"}, Returns(Abc123))

Persons ==
  {PersonV(attrs, r) :
     attrs \in {{"name"}, {"first_name", "last_name"}},
     r \in {Returns(Abc123), Raises("RuntimeError"), Raises("KeyboardInterrupt")}}
  \cup {NoneV}

\* the outcome of  person.get_id()
GetId(person) ==
  IF person.kind = "Person" THEN person.get_id ELSE Raises("AttributeError")

\* the exceptions `except Exception` catches: all but those derived from BaseException alone
IsException(e) == e \notin {"KeyboardInterrupt", "SystemExit", "GeneratorExit"}

\* person.first_name and person.last_name can be read
HasNames(person) ==
  person.kind = "Person" /\ {"first_name", "last_name"} \subseteq person.attrs

ErrorLine(e) == [text |-> "Error calling do_something for Person", exc |-> e]

CallProcessPerson ==
  /\ pc = "idle"
  /\ Len(stdout) < MaxStdout
  /\ \E person \in Persons : args' = <<person>>
  /\ fn' = "process_person"
  /\ pc' = "pp_l12"
  /\ UNCHANGED <<outcome, pending, stdout, globals, evaluated, stdout0, memo, ranking, data, loop>>

\* line 12: return person.get_id(); lines 13, 15: where control goes next
ProcessPersonTry ==
  /\ pc = "pp_l12"
  /\ LET r == GetId(args[1])
     IN  IF r.tag = "raise" /\ IsException(r.exc)
         THEN pc' = "pp_l14" /\ pending' = r
         ELSE pc' = "pp_l16" /\ pending' = r
  /\ UNCHANGED <<fn, args, outcome, stdout, globals, evaluated, stdout0, memo, ranking, data, loop>>

\* line 14: the handler formats the person's names and prints
ProcessPersonExcept ==
  /\ pc = "pp_l14"
  /\ IF HasNames(args[1])
     THEN /\ stdout' = Append(stdout, ErrorLine(pending.exc))
          /\ pending' = NoOutcome
     ELSE /\ pending' = Raises("AttributeError")
          /\ UNCHANGED stdout
  /\ pc' = "pp_l16"
  /\ UNCHANGED <<fn, args, outcome, globals, evaluated, stdout0, memo, ranking, data, loop>>

\* process_person without the return in `finally`: what is in flight goes on
ProcessPersonFinallyPasses ==
  /\ pc = "pp_l16"
  /\ outcome' = IF pending = NoOutcome THEN Returns(NoneV) ELSE pending
  /\ pc' = "done"
  /\ UNCHANGED <<fn, args, pending, stdout, globals, evaluated, stdout0, memo, ranking, data, loop>>

\* line 16: finally: return None
ProcessPersonFinally ==
  /\ pc = "pp_l16"
  /\ outcome' = Returns(NoneV)
  /\ pc' = "done"
  /\ UNCHANGED <<fn, args, pending, stdout, globals, evaluated, stdout0, memo, ranking, data, loop>>

(***************************************************************************)
(* process_person without `finally` (person2.py).  The Person of person2.py*)
(* has the attributes first_name and last_name and a get_id that returns   *)
(* "abc123".  The objects passed are those passed to the other version and *)
(* objects whose get_id returns None.                                      *)
(***************************************************************************)
\* person2.py lines 1-8: Person(first_name, last_name)
Person2 == PersonV({"first_name", "last_name"}, Returns(Abc123))

Persons2 ==
  Persons \cup {PersonV(attrs, Returns(NoneV)) :
                  attrs \in {{"name"}, {"first_name", "last_name"}}}

CallProcessPerson2 ==
  /\ pc = "idle"
  /\ Len(stdout) < MaxStdout
  /\ \E person \in Persons2 : args' = <<person>>
  /\ fn' = "person2.process_person"
  /\ pc' = "p2_l13"
  /\ UNCHANGED <<outcome, pending, stdout, globals, evaluated, stdout0, memo, ranking, data, loop>>

\* line 13: return person.get_id(); line 14: an Exception goes to the handler,
\* any other exception leaves the function
ProcessPerson2Try ==
  /\ pc = "p2_l13"
  /\ LET r == GetId(args[1])
     IN  IF r.tag = "raise" /\ IsException(r.exc)
         THEN pc' = "p2_l15" /\ pending' = r /\ UNCHANGED outcome
         ELSE pc' = "done" /\ outcome' = r /\ UNCHANGED pending
  /\ UNCHANGED <<fn, args, stdout, globals, evaluated, stdout0, memo, ranking, data, loop>>

\* process_person with a handler that prints and raises the exception again
ProcessPerson2ExceptReraises ==
  /\ pc = "p2_l15"
  /\ IF HasNames(args[1])
     THEN /\ stdout' = Append(stdout, ErrorLine(pending.exc))
          /\ outcome' = pending
     ELSE /\ outcome' = Raises("AttributeError")
          /\ UNCHANGED stdout
  /\ pc' = "done"
  /\ UNCHANGED <<fn, args, pending, globals, evaluated, stdout0, memo, ranking, data, loop>>

\* line 15: the handler formats the person's names and prints; an exception
\* raised in the handler leaves the function
ProcessPerson2Except ==
  /\ pc = "p2_l15"
  /\ IF HasNames(args[1])
     THEN /\ stdout' = Append(stdout, ErrorLine(pending.exc))
          /\ pc' = "p2_l16"
          /\ UNCHANGED outcome
     ELSE /\ outcome' = Raises("AttributeError")
          /\ pc' = "done"
          /\ UNCHANGED stdout
  /\ UNCHANGED <<fn, args, pending, globals, evaluated, stdout0, memo, ranking, data, loop>>

\* line 16: return None
ProcessPerson2Return ==
  /\ pc = "p2_l16"
  /\ outcome' = Returns(NoneV)
  /\ pc' = "done"
  /\ UNCHANGED <<fn, args, pending, stdout, globals, evaluated, stdout0, memo, ranking, data, loop>>

(***************************************************************************)
(* The caller.  It takes the outcome of the finished call and goes on to   *)
(* its next call.  One call of add or square among Watched may be kept in  *)
(* memo, with its outcome, to be compared with later calls.                *)
(***************************************************************************)
Watched ==
  {<<"add", <<IntOf(1), IntOf(2)>>>>,
   <<"add", <<StrV(<<"1">>), IntOf(2)>>>>,
   <<"add", <<F0_1, F0_2>>>>,
   <<"add", <<Int2p1024, F0_1>>>>,
   <<"square", <<IntOf(-2)>>>>,
   <<"square", <<StrV(<<"1", "2">>)>>>>}

Continue ==
  /\ pc = "done"
  /\ pc' = "idle"
  /\ \/ UNCHANGED memo
     \/ /\ memo = <<>>
        /\ <<fn, args>> \in Watched
        /\ memo' = <<[fn |-> fn, args |-> args, outcome |-> outcome]>>
  /\ fn' = ""
  /\ args' = <<>>
  /\ outcome' = NoOutcome
  /\ pending' = NoOutcome
  /\ evaluated' = FALSE
  /\ stdout0' = stdout
  /\ UNCHANGED <<stdout, globals, ranking, data, loop>>

(***************************************************************************)
(* ranking_to_individual_games (public/2022-10-03/ranking_from_ranked_     *)
(* order.py), a script of its own.  A ranking is a list of players, the    *)
(* best first.  The DataFrame is the sequence of its rows, in index order  *)
(* (every concat is made with ignore_index=True), each row a function of   *)
(* the three column names.  Of the dtype of the columns only that of       *)
(* 'result' matters: pandas gives the column of the empty frame of line 10 *)
(* the dtype float64 or object, depending on its version, and concat keeps *)
(* that dtype when it appends the int64 1 of line 13, as 1.0 or as 1.      *)
(***************************************************************************)
MaxRanking == 4

\* line 18: the players of the script, and one more
Players == {"A", "B", "C", "D"}

Rankings == UNION {[1..n -> Players] : n \in 0..MaxRanking}

\* list.index(x), counted from 0: the first position where x is
index(list, x) ==
  (CHOOSE p \in 1..Len(list) :
     list[p] = x /\ \A q \in 1..(p - 1) : list[q] # x) - 1

\* list[start:], a new list
SliceFrom(list, start) == SubSeq(list, start + 1, Len(list))

DataFrame(dtype, rows) == [kind |-> "DataFrame", dtype |-> dtype, rows |-> rows]

Row(player_i, player_j, result) ==
  ("Player i" :> player_i) @@ ("Player j" :> player_j) @@ ("result" :> result)

ResultDtypes == {"float64", "object"}

F1_0 == FiniteV(FALSE, BPow2(52), -52)                        \* 1.0

\* a value of an int64 column as the column of the given dtype holds it
AsDtype(dtype, v) == IF dtype = "float64" THEN IntToFloat(v) ELSE v

\* pd.concat([frame, new_row], ignore_index=True) for a frame of one row
concat(frame, new_row) ==
  DataFrame(frame.dtype,
            Append(frame.rows,
                   [new_row EXCEPT !["result"] = AsDtype(frame.dtype, @)]))

NoFrame == [kind |-> "none"]
NoLoop == [i |-> 0, player_i |-> "", rest |-> <<>>, j |-> 0]

CallRanking ==
  /\ pc \in {"idle", "done"}
  /\ \E r \in Rankings : ranking' = r /\ args' = <<r>>
  /\ fn' = "ranking_to_individual_games"
  /\ outcome' = NoOutcome
  /\ data' = NoFrame
  /\ loop' = NoLoop
  /\ pc' = "rk_l10"
  /\ UNCHANGED <<pending, stdout, globals, evaluated, stdout0, memo>>

\* line 10: data = pd.DataFrame({"Player i": [], "Player j": [], "result": []})
RankingInit ==
  /\ pc = "rk_l10"
  /\ \E dtype \in ResultDtypes : data' = DataFrame(dtype, <<>>)
  /\ pc' = "rk_l11"
  /\ UNCHANGED <<fn, args, outcome, pending, stdout, globals, evaluated, stdout0, memo,
                 ranking, loop>>

\* the outer loop with a slice that begins at player_i itself
RankingOuterFromSelf ==
  /\ pc = "rk_l11"
  /\ IF loop.i < Len(ranking)
     THEN LET player_i == ranking[loop.i + 1]
          IN  /\ loop' = [i |-> loop.i + 1, player_i |-> player_i,
                          rest |-> SliceFrom(ranking, index(ranking, player_i)), j |-> 0]
              /\ pc' = "rk_l12"
     ELSE pc' = "rk_l15" /\ UNCHANGED loop
  /\ UNCHANGED <<fn, args, outcome, pending, stdout, globals, evaluated, stdout0, memo,
                 ranking, data>>

\* line 11: for player_i in ranking, and the list the inner loop will go
\* through, line 12: ranking[ranking.index(player_i) + 1:]
RankingOuter ==
  /\ pc = "rk_l11"
  /\ IF loop.i < Len(ranking)
     THEN LET player_i == ranking[loop.i + 1]
          IN  /\ loop' = [i |-> loop.i + 1, player_i |-> player_i,
                          rest |-> SliceFrom(ranking, index(ranking, player_i) + 1), j |-> 0]
              /\ pc' = "rk_l12"
     ELSE pc' = "rk_l15" /\ UNCHANGED loop
  /\ UNCHANGED <<fn, args, outcome, pending, stdout, globals, evaluated, stdout0, memo,
                 ranking, data>>

\* lines 12-14: for player_j in the slice: a row for (player_i, player_j)
RankingInner ==
  /\ pc = "rk_l12"
  /\ IF loop.j < Len(loop.rest)
     THEN LET player_j == loop.rest[loop.j + 1]
              new_row == Row(loop.player_i, player_j, IntOf(1))
          IN  /\ data' = concat(data, new_row)
              /\ loop' = [loop EXCEPT !.j = @ + 1]
              /\ pc' = "rk_l12"
     ELSE pc' = "rk_l11" /\ UNCHANGED <<data, loop>>
  /\ UNCHANGED <<fn, args, outcome, pending, stdout, globals, evaluated, stdout0, memo,
                 ranking>>

\* line 15: return data
RankingReturn ==
  /\ pc = "rk_l15"
  /\ outcome' = Returns(data)
  /\ pc' = "done"
  /\ UNCHANGED <<fn, args, pending, stdout, globals, evaluated, stdout0, memo,
                 ranking, data, loop>>

Init ==
  /\ pc = "idle"
  /\ fn = ""
  /\ args = <<>>
  /\ outcome = NoOutcome
  /\ pending = NoOutcome
  /\ stdout = <<>>
  /\ globals = <<>>
  /\ evaluated = FALSE
  /\ stdout0 = <<>>
  /\ memo = <<>>
  /\ ranking = <<>>
  /\ data = NoFrame
  /\ loop = NoLoop

Next ==
  \/ CallAdd
  \/ AddCheck
  \/ AddRaise
  \/ AddReturn
  \/ CallSquare
  \/ SquareCheck
  \/ SquareRaise
  \/ SquareReturn
  \/ CallProcessPerson
  \/ ProcessPersonTry
  \/ ProcessPersonExcept
  \/ ProcessPersonFinally
  \/ CallProcessPerson2
  \/ ProcessPerson2Try
  \/ ProcessPerson2Except
  \/ ProcessPerson2Return
  \/ Continue

Spec == Init /\ [][Next]_vars

\* the ranking script: calls of ranking_to_individual_games, one after another
NextRanking ==
  \/ CallRanking
  \/ RankingInit
  \/ RankingOuter
  \/ RankingInner
  \/ RankingReturn

SpecRanking == Init /\ [][NextRanking]_vars

(***************************************************************************)
(* What the properties below read of a finished call.                      *)
(***************************************************************************)
Finished(f) == pc = "done" /\ fn = f

\* a Python int as an integer, for magnitudes within the machine integers
Small(v) == BitLen(v.mag) <= 29
ToInt(v) ==
  LET n == Limb(v.mag, 1) + Base * Limb(v.mag, 2)
  IN  IF v.neg THEN 0 - n ELSE n

\* a Python int modulo a prime p < 2^15
Residue(v, p) == IF v.neg THEN (p - BMod(v.mag, p)) % p ELSE BMod(v.mag, p)

Primes == {32749, 32719, 32717}

\* r = x + y: on the integers when all three are small, and modulo the primes
IsSum(r, x, y) ==
  /\ (Small(r) /\ Small(x) /\ Small(y)) => ToInt(r) = ToInt(x) + ToInt(y)
  /\ \A p \in Primes : Residue(r, p) = (Residue(x, p) + Residue(y, p)) % p
  /\ BitLen(r.mag) <= MaxOf(BitLen(x.mag), BitLen(y.mag)) + 1

\* r = x * y, likewise
IsProduct(r, x, y) ==
  /\ (BitLen(x.mag) + BitLen(y.mag) <= 29) => ToInt(r) = ToInt(x) * ToInt(y)
  /\ \A p \in Primes : Residue(r, p) = (Residue(x, p) * Residue(y, p)) % p
  /\ BitLen(r.mag) <= BitLen(x.mag) + BitLen(y.mag)
  /\ r.neg = (x.neg # y.neg /\ r.mag # <<>>)

NonNumericKinds == {"str", "list", "dict"}

\* C1: for every pair of ints (zero and negative ones included) add returns an
\* int equal to exactly a + b; add(1, 2) = 3, add(-2, 2) = 0, add(-5, 100) = 95.
C1_AddOfIntsIsTheirSum ==
  (Finished("add") /\ args[1].kind = "int" /\ args[2].kind = "int") =>
     /\ outcome.tag = "return"
     /\ outcome.val.kind = "int"
     /\ IsSum(outcome.val, args[1], args[2])
     /\ (args = <<IntOf(1), IntOf(2)>> => outcome.val = IntOf(3))
     /\ (args = <<IntOf(-2), IntOf(2)>> => outcome.val = IntOf(0))
     /\ (args = <<IntOf(-5), IntOf(100)>> => outcome.val = IntOf(95))

C1_Witness ==
  Finished("add") /\ args = <<IntOf(-5), IntOf(100)>> /\ outcome = Returns(IntOf(95))

\* C2: when at least one argument is a string, a sequence or a mapping, add
\* raises TypeError and returns no value, whichever position it is in and
\* whatever the other argument is.
C2_AddRejectsNonNumbers ==
  (Finished("add") /\ (args[1].kind \in NonNumericKinds \/ args[2].kind \in NonNumericKinds)) =>
     outcome = Raises("TypeError")

C2_Witness ==
  /\ Finished("add")
  /\ args = <<IntOf(2), StrV(<<"1">>)>>
  /\ outcome = Raises("TypeError")

\* C3 as stated: add succeeds if and only if both arguments are of kind int or
\* float, and a value of any other kind (string, sequence, mapping, boolean,
\* null) in either position is rejected with TypeError.
C3_AcceptsExactlyIntAndFloat ==
  Finished("add") =>
     LET numeric == args[1].kind \in {"int", "float"} /\ args[2].kind \in {"int", "float"}
     IN  /\ outcome.tag = "return" <=> numeric
         /\ ~numeric => outcome = Raises("TypeError")

\* C3 as amended: add rejects a call with TypeError if and only if an argument
\* is not an int, a float or a bool (bool is a subclass of int), and it returns
\* a value only when both are.
C3_AcceptsIntFloatAndBool ==
  Finished("add") =>
     LET numeric == args[1].kind \in {"int", "float", "bool"}
                    /\ args[2].kind \in {"int", "float", "bool"}
     IN  /\ outcome = Raises("TypeError") <=> ~numeric
         /\ outcome.tag = "return" => numeric

C3_Witness ==
  /\ Finished("add")
  /\ args = <<BoolV(TRUE), IntOf(1)>>
  /\ outcome = Returns(IntOf(2))

\* C4 as stated: whenever add fails, it fails at the validation, before a + b
\* is evaluated, with TypeError itself, and nothing observable has changed.
C4_EveryFailureIsAtValidation ==
  (Finished("add") /\ outcome.tag = "raise") =>
     /\ ~evaluated
     /\ outcome.exc = "TypeError"
     /\ stdout = stdout0
     /\ globals = <<>>

\* C4 as amended: whenever add fails with TypeError, it fails at the validation,
\* before a + b is evaluated, and nothing observable has changed; a call with a
\* non-numeric argument fails so, with TypeError itself.  (The other failure,
\* OverflowError, comes out of the addition.)
C4_TypeErrorIsAtValidation ==
  Finished("add") =>
     /\ (outcome.tag = "raise" /\ outcome.exc = "TypeError") =>
           ~evaluated /\ stdout = stdout0 /\ globals = <<>>
     /\ (args[1].kind \notin NumKinds \/ args[2].kind \notin NumKinds) =>
           outcome = Raises("TypeError") /\ ~evaluated
     /\ (outcome.tag = "raise" /\ outcome.exc # "TypeError") => evaluated

C4_Witness ==
  /\ Finished("add")
  /\ args = <<StrV(<<"1">>), StrV(<<"1", "2">>)>>
  /\ outcome = Raises("TypeError")
  /\ ~evaluated

\* an int that float() cannot convert: it rounds to 2**1024 or beyond
TooLargeForFloat(v) ==
  v.kind = "int" /\ BCmp(v.mag, BSub(BPow2(1024), BPow2(970))) >= 0

\* C5 as stated: add and square fail with TypeError only, and return a value
\* whenever all arguments are ints or floats.
C5_TypeErrorIsTheOnlyFailure ==
  (Finished("add") \/ Finished("square")) =>
     /\ (\A i \in 1..Len(args) : args[i].kind \in {"int", "float"}) => outcome.tag = "return"
     /\ outcome.tag = "raise" => outcome.exc = "TypeError"

\* C5 as amended: square fails with TypeError only; add fails with TypeError,
\* or with OverflowError exactly when one argument is a float and the other an
\* int too large to convert to a float; with ints and floats for arguments the
\* call returns a value in every other case.
C5_TypeErrorOrIntTooLarge ==
  (Finished("add") \/ Finished("square")) =>
     LET overflows == /\ fn = "add"
                      /\ \/ TooLargeForFloat(args[1]) /\ args[2].kind = "float"
                         \/ TooLargeForFloat(args[2]) /\ args[1].kind = "float"
     IN  /\ outcome = Raises("OverflowError") <=> overflows
         /\ outcome.tag = "raise" => outcome.exc \in {"TypeError", "OverflowError"}
         /\ ((\A i \in 1..Len(args) : args[i].kind \in {"int", "float"}) /\ ~overflows)
               => outcome.tag = "return"

C5_Witness ==
  /\ Finished("add")
  /\ args = <<Int2p1024, F0_1>>
  /\ outcome = Raises("OverflowError")
\* C6: for every int x (zero and negative ones included) square returns exactly
\* x * x: square(0) = 0, square(1) = 1, square(2) = 4, square(-2) = 4; for the
\* decimals 1.5 and -1.5 it returns 2.25.
C6_SquareIsExact ==
  Finished("square") =>
     /\ args[1].kind = "int" =>
           /\ outcome.tag = "return"
           /\ outcome.val.kind = "int"
           /\ IsProduct(outcome.val, args[1], args[1])
     /\ args = <<IntOf(0)>> => outcome = Returns(IntOf(0))
     /\ args = <<IntOf(1)>> => outcome = Returns(IntOf(1))
     /\ args = <<IntOf(2)>> => outcome = Returns(IntOf(4))
     /\ args = <<IntOf(-2)>> => outcome = Returns(IntOf(4))
     /\ args[1] \in {F1_5, FNeg1_5} => outcome = Returns(F2_25)

C6_Witness ==
  Finished("square") /\ args = <<FNeg1_5>> /\ outcome = Returns(F2_25)

\* C7: for every x that is a string (a numeric one such as "12" included), a
\* sequence (one of numbers such as [1, 2, 3] included) or a mapping, square
\* raises TypeError and returns no value.
C7_SquareRejectsNonNumbers ==
  (Finished("square") /\ args[1].kind \in NonNumericKinds) =>
     outcome = Raises("TypeError")

C7_Witness ==
  /\ Finished("square")
  /\ args = <<ListV(<<IntOf(1), IntOf(2), IntOf(3)>>)>>
  /\ outcome = Raises("TypeError")

\* C8: add and square are pure and stateless: a call's outcome is determined by
\* its own arguments, so a call with the arguments of an earlier call has the
\* outcome of that call whatever was called before or between them, and the
\* calls leave the printed output and the module's state as they were.
C8_SameArgumentsSameOutcome ==
  (Finished("add") \/ Finished("square")) =>
     /\ (memo # <<>> /\ memo[1].fn = fn /\ memo[1].args = args) => outcome = memo[1].outcome
     /\ stdout = stdout0
     /\ globals = <<>>

\* the kept call is made again, after a call that printed
C8_Witness ==
  /\ Finished("add")
  /\ memo # <<>>
  /\ memo[1].fn = "add"
  /\ memo[1].args = args
  /\ args = <<IntOf(1), IntOf(2)>>
  /\ stdout # <<>>

(***************************************************************************)
(* Exact arithmetic on the values of finite floats, to measure add against *)
(* the mathematical sum.  A dyadic is (-1)^neg * m * 2^e.                  *)
(***************************************************************************)
Dyadic(neg, m, e) == [neg |-> neg, m |-> m, e |-> e]
DyOf(f) == Dyadic(f.neg, f.m, f.e)
DyNeg(x) == Dyadic(~x.neg, x.m, x.e)

DyAdd(x, y) ==
  LET lo == MinOf(x.e, y.e)
      xm == BShl(x.m, x.e - lo)
      ym == BShl(y.m, y.e - lo)
  IN  IF x.neg = y.neg THEN Dyadic(x.neg, BAdd(xm, ym), lo)
      ELSE IF BCmp(xm, ym) >= 0 THEN Dyadic(x.neg, BSub(xm, ym), lo)
      ELSE Dyadic(y.neg, BSub(ym, xm), lo)

\* -1, 0, 1 as |x| < |y|, |x| = |y|, |x| > |y|
DyAbsCmp(x, y) ==
  IF x.m = <<>> \/ y.m = <<>>
  THEN (IF x.m = y.m THEN 0 ELSE IF x.m = <<>> THEN -1 ELSE 1)
  ELSE LET lo == MinOf(x.e, y.e)
       IN  BCmp(BShl(x.m, x.e - lo), BShl(y.m, y.e - lo))

\* x * c for a natural number c
DyTimes(x, c) == Dyadic(x.neg, BMul(x.m, c), x.e)

DyPow2(k) == Dyadic(FALSE, <<1>>, k)

\* assertAlmostEqual compares to 7 decimal places:  round(x, 7) == 0, that is
\* |x| <= 0.5 * 10^-7  (round() rounds the exact value, a tie to the even digit)
TestPlaces == 7
RoundsToZero(x) == DyAbsCmp(DyTimes(x, BMulSmall(BPow10(TestPlaces), 2)), DyPow2(0)) <= 0

\* the least magnitude that rounds to 2^1024: 2^1024 - 2^970
RoundsToInfinity(x) ==
  DyAbsCmp(x, Dyadic(FALSE, BSub(BPow2(FloatMantBits + 1), <<1>>),
                     FloatMaxExp - FloatMantBits - 1)) >= 0

IsFinite(v) == v.kind = "float" /\ v.cls = "finite"

\* assertAlmostEqual(first, second) of two finite floats:
\* first == second or round(abs(first - second), 7) == 0
AlmostEqual(first, second) ==
  \/ DyAdd(DyOf(first), DyNeg(DyOf(second))).m = <<>>
  \/ LET diff == FloatAdd(first, FiniteV(~second.neg, second.m, second.e))
     IN  IsFinite(diff) /\ RoundsToZero(DyOf(diff))

\* C9 as stated: for every pair of (finite) floats add returns their sum as a
\* float, within 7 decimal places of the mathematical sum.
C9_FloatSumWithinTolerance ==
  (Finished("add") /\ IsFinite(args[1]) /\ IsFinite(args[2])) =>
     /\ outcome.tag = "return"
     /\ IsFinite(outcome.val)
     /\ RoundsToZero(DyAdd(DyOf(outcome.val), DyNeg(DyAdd(DyOf(args[1]), DyOf(args[2])))))

\* C9 as amended: for finite floats a and b, add returns a + b rounded to the
\* nearest float (an infinity when the rounded sum reaches 2**1024): a finite
\* result is within half a unit in its last place of the mathematical sum, and
\* so within 7 decimal places of it when |a + b| < 2**29; add(0.1, 0.2) is
\* within tolerance of 0.3 and add(-0.2, 0.2) of 0.
C9_FloatSumIsRounded ==
  (Finished("add") /\ IsFinite(args[1]) /\ IsFinite(args[2])) =>
     LET exact == DyAdd(DyOf(args[1]), DyOf(args[2]))
         r == outcome.val
         err == DyAdd(DyOf(r), DyNeg(exact))
     IN  /\ outcome.tag = "return"
         /\ r.kind = "float"
         /\ r.cls \in {"finite", "inf"}
         /\ r.cls = "inf" <=> RoundsToInfinity(exact)
         /\ r.cls = "finite" =>
               /\ r.m # <<>> => DyAbsCmp(DyTimes(err, <<2>>), DyPow2(r.e)) <= 0
               /\ r.m = <<>> => exact.m = <<>>
               /\ DyAbsCmp(exact, DyPow2(29)) < 0 => RoundsToZero(err)
         /\ args = <<F0_1, F0_2>> => AlmostEqual(r, F0_3)
         /\ args = <<FNeg0_2, F0_2>> => AlmostEqual(r, ZeroF(FALSE))

\* 0.1 + 0.2: the sum is not a float, and the result is not 0.3
C9_Witness ==
  /\ Finished("add")
  /\ args = <<F0_1, F0_2>>
  /\ outcome.tag = "return"
  /\ outcome.val # F0_3
  /\ DyAdd(DyOf(outcome.val), DyNeg(DyAdd(DyOf(F0_1), DyOf(F0_2)))).m # <<>>
  /\ AlmostEqual(outcome.val, F0_3)

\* C10: process_person of person4.py returns None on every path and raises
\* nothing: the return in `finally` replaces the id returned in `try`, and it
\* discards an exception of get_id as well as one raised in the handler, which
\* reads first_name and last_name, attributes the Person of the file lacks.
C10_FinallyReturnsNone ==
  /\ Finished("process_person") => outcome = Returns(NoneV)
  /\ (fn = "process_person" /\ pc \in {"pp_l16", "done"}) =>
        /\ pending # NoOutcome \/ stdout # stdout0
        /\ (args[1] = Person4) => pending = Returns(Abc123)
        /\ (args[1] = PersonV({"name"}, Raises("RuntimeError"))) =>
              pending = Raises("AttributeError") /\ stdout = stdout0
        /\ (args[1] = PersonV({"name"}, Raises("KeyboardInterrupt"))) =>
              pending = Raises("KeyboardInterrupt")

\* the handler itself has raised, and the call has returned None
C10_Witness ==
  /\ Finished("process_person")
  /\ args = <<PersonV({"name"}, Raises("RuntimeError"))>>
  /\ pending = Raises("AttributeError")
  /\ outcome = Returns(NoneV)

\* C11 as stated: process_person of person2.py returns exactly what get_id
\* returned when get_id completes, and it returns None only when get_id raises
\* an Exception; the error is then printed by the handler and no exception
\* reaches the caller.
C11_NoneOnlyWhenGetIdRaises ==
  Finished("person2.process_person") =>
     LET r == GetId(args[1])
         caught == r.tag = "raise" /\ IsException(r.exc)
     IN  /\ r.tag = "return" => outcome = r
         /\ outcome = Returns(NoneV) => caught
         /\ caught => /\ outcome = Returns(NoneV)
                      /\ stdout = Append(stdout0, ErrorLine(r.exc))

\* C11 as amended: process_person of person2.py returns exactly what get_id
\* returned when get_id completes (None when that is None), printing nothing.
\* When get_id raises an Exception and the person has first_name and last_name,
\* the handler prints the error and the call returns None; when the person
\* lacks them, the handler raises AttributeError, which reaches the caller.  An
\* exception that is not an Exception (KeyboardInterrupt) reaches the caller.
\* So the call returns None exactly when get_id returned None or the handler
\* completed.
C11_GetIdValueOrHandledNone ==
  Finished("person2.process_person") =>
     LET r == GetId(args[1])
         caught == r.tag = "raise" /\ IsException(r.exc)
     IN  /\ r.tag = "return" => outcome = r /\ stdout = stdout0
         /\ args[1] = Person2 => outcome = Returns(Abc123)
         /\ (caught /\ HasNames(args[1])) =>
               /\ outcome = Returns(NoneV)
               /\ stdout = Append(stdout0, ErrorLine(r.exc))
         /\ (caught /\ ~HasNames(args[1])) =>
               outcome = Raises("AttributeError") /\ stdout = stdout0
         /\ (r.tag = "raise" /\ ~caught) => outcome = r /\ stdout = stdout0
         /\ outcome = Returns(NoneV) <=>
               (r = Returns(NoneV) \/ (caught /\ HasNames(args[1])))

\* get_id has raised, the handler has printed the error, None is returned
C11_Witness ==
  /\ Finished("person2.process_person")
  /\ args = <<PersonV({"first_name", "last_name"}, Raises("RuntimeError"))>>
  /\ stdout = Append(stdout0, ErrorLine("RuntimeError"))
  /\ outcome = Returns(NoneV)

Range(list) == {list[p] : p \in 1..Len(list)}

\* no player twice in the list
IsDistinct(list) == \A p, q \in 1..Len(list) : p # q => list[p] # list[q]

\* where a player of a list of distinct players is
PositionOf(list, x) == CHOOSE p \in 1..Len(list) : list[p] = x

\* C12: for a ranking of n distinct players ranking_to_individual_games returns
\* exactly n*(n-1)/2 rows, one for each unordered pair of players, with the
\* earlier placed of the two as 'Player i', the later placed as 'Player j' and
\* a 'result' of 1; the rows come in ranking order of Player i and then of
\* Player j, no player is paired with itself, and the ranking passed is left as
\* it was.
C12_OneRowForEachPair ==
  (Finished("ranking_to_individual_games") /\ IsDistinct(args[1])) =>
     LET n == Len(args[1])
         rows == outcome.val.rows
         pi(k) == PositionOf(args[1], rows[k]["Player i"])
         pj(k) == PositionOf(args[1], rows[k]["Player j"])
     IN  /\ outcome.tag = "return"
         /\ outcome.val.kind = "DataFrame"
         /\ 2 * Len(rows) = n * (n - 1)
         /\ \A k \in 1..Len(rows) :
               /\ DOMAIN rows[k] = {"Player i", "Player j", "result"}
               /\ rows[k]["Player i"] \in Range(args[1])
               /\ rows[k]["Player j"] \in Range(args[1])
               /\ pi(k) < pj(k)
               /\ rows[k]["Player i"] # rows[k]["Player j"]
               /\ rows[k]["result"] \in {IntOf(1), F1_0}
         /\ \A p, q \in 1..n : p < q =>
               Cardinality({k \in 1..Len(rows) : pi(k) = p /\ pj(k) = q}) = 1
         /\ \A k, l \in 1..Len(rows) : k < l =>
               pi(k) < pi(l) \/ (pi(k) = pi(l) /\ pj(k) < pj(l))
         /\ ranking = args[1]

\* four players: six rows, the first for the two best, the last for the two worst
C12_Witness ==
  /\ Finished("ranking_to_individual_games")
  /\ args = <<<<"C", "A", "D", "B">>>>
  /\ Len(outcome.val.rows) = 6
  /\ outcome.val.rows[1] = Row("C", "A", F1_0)
  /\ outcome.val.rows[6] = Row("D", "B", F1_0)
====
